---- MODULE Spec2Model ----
(***************************************************************************)
(* EmbeddingLayer of modelzoo/common/pytorch/layers/EmbeddingLayer.py:     *)
(* construction (__init__ and _reset_parameters), the sinusoid table of    *)
(* create_fix_pos_embedding, forward, and the two word-table accessors.    *)
(*                                                                         *)
(* Tensors are records [err, shape, data]: data is the row-major list of   *)
(* the elements, err is "" for a tensor and the exception's name for a     *)
(* computation that raised.  Floating-point values are symbolic: a value   *)
(* is a bag of atoms, the sum of two values is the bag sum, zero is the    *)
(* empty bag.  An atom <<kind, table, r, c>> names one number the program  *)
(* has produced (the value an initializer wrote in a cell, a sine, a       *)
(* cosine, the number one), so two values are equal exactly when they are  *)
(* the same sum of the same numbers.                                       *)
(***************************************************************************)
EXTENDS Integers, Sequences, FiniteSets, Bags, TLC

VARIABLES
    cfg,                 \* the arguments of __init__
    input,               \* the arguments of forward
    status,              \* "new", "ready" (constructed) or "failed" (__init__ raised)
    error,               \* the exception __init__ raised, "" if none
    built,               \* the tables __init__ created, in order of creation
    heap,                \* the nn.Embedding modules, by reference
    word_embeddings,     \* self.word_embeddings: a reference
    position_embeddings, \* self.position_embeddings: None, a reference or a tensor
    segment_embeddings,  \* self.segment_embeddings: None or a reference
    out,                 \* what the last forward call computed and returned
    got,                 \* what the last get_input_embeddings call returned
    last_set,            \* the argument of the last set_input_embeddings call
    fix_args,            \* the arguments of a create_fix_pos_embedding call
    signal               \* what that call returned

vars == <<cfg, input, status, error, built, heap, word_embeddings,
          position_embeddings, segment_embeddings, out, got, last_set,
          fix_args, signal>>

(***************************************************************************)
(* Bounds of the model.                                                    *)
(***************************************************************************)
MaxPos == 2
MaxSeqLen == 2
MaxPast == 1
MaxFixSeqLen == 5
MaxFixEmbedLen == 10

(***************************************************************************)
(* Optional values: None is the empty tuple, a value v is <<v>>.           *)
(***************************************************************************)
None == <<>>

Some(v) == <<v>>

IsNone(x) == x = None

\* Python truthiness of an Optional[int]: None and 0 are both false.
Truthy(x) == x # None /\ x[1] # 0

(***************************************************************************)
(* Symbolic values.                                                        *)
(***************************************************************************)
Zero == EmptyBag

Atom(kind, table, r, c) == SetToBag({<<kind, table, r, c>>})

Plus(x, y) == x (+) y

(***************************************************************************)
(* Tensors.                                                                *)
(***************************************************************************)
\* A tensor; its elements are listed explicitly.
T(shape, data) == [err |-> "", shape |-> shape \o <<>>, data |-> data \o <<>>]

Raise(e) == [err |-> e, shape |-> <<>>, data |-> <<>>]

Ok(t) == t.err = ""

NoTensor == Raise("None")

RECURSIVE Numel(_)
Numel(shape) == IF shape = <<>> THEN 1 ELSE Head(shape) * Numel(Tail(shape))

RECURSIVE SumSeq(_)
SumSeq(s) == IF s = <<>> THEN 0 ELSE Head(s) + SumSeq(Tail(s))

\* The number of elements one step along dimension d (1-based) skips.
Stride(shape, d) == Numel(SubSeq(shape, d + 1, Len(shape)))

\* The index along dimension d of the element at row-major offset k (0-based).
Coord(k, shape, d) == (k \div Stride(shape, d)) % shape[d]

\* The element of the 2-D tensor t at row r, column c (0-based).
At2(t, r, c) == t.data[r * t.shape[2] + c + 1]

\* The element of the 3-D tensor t at [b, j, c] (0-based).
At3(t, b, j, c) == t.data[(b * t.shape[2] + j) * t.shape[3] + c + 1]

Max(a, b) == IF a >= b THEN a ELSE b

\* A shape aligned on the right to rank n, as broadcasting aligns it.
PadShape(shape, n) ==
    [i \in 1..n |-> IF i <= n - Len(shape) THEN 1 ELSE shape[i - (n - Len(shape))]]

Broadcastable(sa, sb) ==
    LET n == Max(Len(sa), Len(sb))
        A == PadShape(sa, n)
        B == PadShape(sb, n)
    IN \A i \in 1..n : A[i] = B[i] \/ A[i] = 1 \/ B[i] = 1

BroadcastShape(sa, sb) ==
    LET n == Max(Len(sa), Len(sb))
        A == PadShape(sa, n)
        B == PadShape(sb, n)
    IN [i \in 1..n |-> IF A[i] = 1 THEN B[i] ELSE A[i]]

\* The 1-based position, in the data of a tensor of shape src, of the element
\* that broadcasting src to shape dst puts at offset k (0-based) of the result.
BroadcastIndex(k, dst, src) ==
    LET off == Len(dst) - Len(src)
    IN 1 + SumSeq([d \in 1..Len(src) |->
                     IF src[d] = 1 THEN 0
                     ELSE Coord(k, dst, d + off) * Stride(src, d)])

\* Let(e, F) is F(e) with e evaluated once, however often F uses its argument.
Let(e, F(_)) == CHOOSE y \in {F(x) : x \in {e}} : TRUE

\* a += b: b is broadcast to the shape of a, which the result must keep.
IAdd(a0, b0) ==
    Let(a0, LAMBDA a : Let(b0, LAMBDA b :
        IF ~Ok(a) THEN a
        ELSE IF ~Ok(b) THEN b
        ELSE IF ~Broadcastable(a.shape, b.shape) THEN Raise("RuntimeError")
        ELSE IF BroadcastShape(a.shape, b.shape) # a.shape THEN Raise("RuntimeError")
        ELSE T(a.shape, [k \in 1..Numel(a.shape) |->
                           Plus(a.data[k],
                                b.data[BroadcastIndex(k - 1, a.shape, b.shape)])])))

\* torch.arange(start, end)
Arange(start, end) ==
    LET n == Max(end - start, 0) IN T(<<n>>, [k \in 1..n |-> start + k - 1])

\* torch.unsqueeze(t, dim), dim 0-based
Unsqueeze(t0, dim) ==
    Let(t0, LAMBDA t :
        T([i \in 1..(Len(t.shape) + 1) |->
             IF i <= dim THEN t.shape[i]
             ELSE IF i = dim + 1 THEN 1 ELSE t.shape[i - 1]],
          t.data))

\* t.expand((n, -1)) of a 1-D tensor
Expand(t0, n) ==
    Let(t0, LAMBDA t :
        T(<<n, t.shape[1]>>,
          [k \in 1..(n * t.shape[1]) |-> t.data[((k - 1) % t.shape[1]) + 1]]))

\* torch.reshape(t, shape) and t.view(shape), every size given
Reshape(t0, shape) ==
    Let(t0, LAMBDA t :
        IF ~Ok(t) THEN t
        ELSE IF Numel(shape) # Numel(t.shape) THEN Raise("RuntimeError")
        ELSE T(shape, t.data))

\* t.view(-1, last)
View(t0, last) ==
    Let(t0, LAMBDA t : Reshape(t, <<Numel(t.shape) \div last, last>>))

\* torch.cat([a, b], axis=1) of two 2-D tensors
Cat(a0, b0) ==
    Let(a0, LAMBDA a : Let(b0, LAMBDA b :
        IF a.shape[1] # b.shape[1] THEN Raise("RuntimeError")
        ELSE LET ca == a.shape[2]
                 w == ca + b.shape[2]
             IN T(<<a.shape[1], w>>,
                  [k \in 1..(a.shape[1] * w) |->
                     LET r == (k - 1) \div w
                         c == (k - 1) % w
                     IN IF c < ca THEN At2(a, r, c) ELSE At2(b, r, c - ca)])))

\* A variant of Transpose that leaves the axes as they are.
NoTranspose(t, dim0, dim1) == t

\* torch.transpose(t, dim0, dim1), dims 0-based
Transpose(t0, dim0, dim1) ==
    LET swap(d) == IF d = dim0 + 1 THEN dim1 + 1
                   ELSE IF d = dim1 + 1 THEN dim0 + 1 ELSE d
    IN Let(t0, LAMBDA t :
       Let([d \in 1..Len(t.shape) |-> t.shape[swap(d)]], LAMBDA shape :
           T(shape,
             [k \in 1..Numel(shape) |->
                t.data[1 + SumSeq([d \in 1..Len(shape) |->
                                     Coord(k - 1, shape, swap(d))
                                       * Stride(t.shape, d)])]])))

\* torch.nn.functional.pad(t, pad) of a 2-D tensor with zeros: pad[1], pad[2]
\* are the left and right of the LAST dimension, pad[3], pad[4] the before and
\* after of the dimension before it.
Pad(t0, pad) ==
    Let(t0, LAMBDA t :
        LET rows == t.shape[1] + pad[3] + pad[4]
            cols == t.shape[2] + pad[1] + pad[2]
        IN T(<<rows, cols>>,
             [k \in 1..(rows * cols) |->
                LET r == ((k - 1) \div cols) - pad[3]
                    c == ((k - 1) % cols) - pad[1]
                IN IF r >= 0 /\ r < t.shape[1] /\ c >= 0 /\ c < t.shape[2]
                   THEN At2(t, r, c) ELSE Zero]))

\* The lookup of an nn.Embedding with table weight: one row per index.
Embedding(weight0, ids0) ==
    Let(weight0, LAMBDA weight : Let(ids0, LAMBDA ids :
        IF ~Ok(ids) THEN ids
        ELSE IF \E k \in 1..Len(ids.data) :
                    ids.data[k] < 0 \/ ids.data[k] >= weight.shape[1]
        THEN Raise("IndexError")
        ELSE LET e == weight.shape[2]
             IN T(ids.shape \o <<e>>,
                  [k \in 1..(Numel(ids.shape) * e) |->
                     At2(weight, ids.data[((k - 1) \div e) + 1], (k - 1) % e)])))

(***************************************************************************)
(* create_fix_pos_embedding.  min_timescale and max_timescale are held at  *)
(* their defaults (1.0 and 1.0e4), for which the logarithm is defined; the *)
(* entry i of inv_timescales stands for the number                         *)
(* min_timescale * exp(-i * log_timescale_increment), and the entry <<p,i>>*)
(* of scaled_time for the product of position p with it.                   *)
(***************************************************************************)
ScaledTime(p, i) == <<p, i>>

\* position * inv_timescales, with broadcasting
Multiply(a0, b0) ==
    Let(a0, LAMBDA a : Let(b0, LAMBDA b :
        IF ~Broadcastable(a.shape, b.shape) THEN Raise("RuntimeError")
        ELSE Let(BroadcastShape(a.shape, b.shape), LAMBDA shape :
                 T(shape, [k \in 1..Numel(shape) |->
                             ScaledTime(a.data[BroadcastIndex(k - 1, shape, a.shape)],
                                        b.data[BroadcastIndex(k - 1, shape, b.shape)])]))))

\* The sine and the cosine of one scaled time: position 0 gives the angle 0,
\* whose sine is 0 and whose cosine is 1.
Sin(x) == IF x[1] = 0 THEN Zero ELSE Atom("sin", "", x[1], x[2])

Cos(x) == IF x[1] = 0 THEN Atom("one", "", 0, 0) ELSE Atom("cos", "", x[1], x[2])

\* torch.sin(t) and torch.cos(t), elementwise
TorchSin(t0) ==
    Let(t0, LAMBDA t : T(t.shape, [k \in 1..Len(t.data) |-> Sin(t.data[k])]))

TorchCos(t0) ==
    Let(t0, LAMBDA t : T(t.shape, [k \in 1..Len(t.data) |-> Cos(t.data[k])]))

create_fix_pos_embedding(seq_len, embed_len) ==
    LET position == Arange(0, seq_len)
        num_timescales == embed_len \div 2
    IN IF num_timescales - 1 = 0 THEN Raise("ZeroDivisionError")
       ELSE
       LET inv_timescales == Arange(0, num_timescales)
           scaled_time == Multiply(Unsqueeze(position, 1),
                                   Unsqueeze(inv_timescales, 0))
           signal1 == Cat(TorchSin(scaled_time), TorchCos(scaled_time))
           signal2 == Reshape(signal1, <<seq_len, 2, num_timescales>>)
           signal3 == Transpose(signal2, 1, 2)
           signal4 == Reshape(signal3, <<seq_len, 2 * num_timescales>>)
       IN Pad(signal4, <<0, 0, 0, embed_len % 2>>)

(***************************************************************************)
(* nn.Embedding modules and the references to them.                        *)
(***************************************************************************)
Handles == {"word", "position", "segment", "tied"}

NoRef == ""

NoModule == [weight |-> NoTensor, padding_idx |-> None]

\* The row and the column (0-based) of element k (1-based) of a table of
\* dim columns.
Row(k, dim) == (k - 1) \div dim

Col(k, dim) == (k - 1) % dim

\* nn.Embedding(num, dim, padding_idx): normal_() weights, the padding row zeroed.
NewEmbedding(name, num, dim, padding_idx) ==
    [weight |-> T(<<num, dim>>,
                  [k \in 1..(num * dim) |->
                     IF padding_idx = Some(Row(k, dim)) THEN Zero
                     ELSE Atom("normal_", name, Row(k, dim), Col(k, dim))]),
     padding_idx |-> padding_idx]

\* The function create_initializer returns, applied in place to a table:
\* every cell is overwritten with a value drawn from the named distribution,
\* a number of its own (none of them zero).
Initializer(initializer, name, weight) ==
    LET dim == weight.shape[2]
    IN T(weight.shape,
         [k \in 1..(weight.shape[1] * dim) |->
            Atom(initializer, name, Row(k, dim), Col(k, dim))])

\* weight.data[idx].zero_(): idx an int zeroes that row; idx None indexes a view
\* of the whole table with one more leading axis, so every row is zeroed.
ZeroIndexed(weight0, idx) ==
    Let(weight0, LAMBDA weight :
        T(weight.shape,
          [k \in 1..Len(weight.data) |->
             IF IsNone(idx) \/ idx = Some(Row(k, weight.shape[2])) THEN Zero
             ELSE weight.data[k]]))

\* self.position_embeddings: None, a reference to a module, or a tensor.
NoPosition == [ref |-> NoRef, tensor |-> NoTensor]

PositionIsNone(pe) == pe.ref = NoRef /\ ~Ok(pe.tensor)

SetWeight(h, ref, weight) == [h EXCEPT ![ref].weight = weight]

\* initializer(module.weight.data) on the module at ref
Initialize(h0, ref, initializer, name) ==
    Let(h0, LAMBDA h :
        SetWeight(h, ref, Initializer(initializer, name, h[ref].weight)))

\* module.weight.data[module.padding_idx].zero_() on the module at ref
ZeroPadding(h0, ref) ==
    Let(h0, LAMBDA h :
        SetWeight(h, ref, ZeroIndexed(h[ref].weight, h[ref].padding_idx)))

(***************************************************************************)
(* Construction.  A layer is the record of its attributes, with the heap   *)
(* its references point into.                                              *)
(***************************************************************************)
_reset_parameters(c, self) ==
    LET word == self.word_embeddings
        pos == self.position_embeddings.ref
        seg == self.segment_embeddings
        learned == c.position_embedding_type = "learned"
        h1 == Initialize(self.heap, word, c.embeddings_initializer, "word")
        h2 == IF learned
              THEN Initialize(h1, pos, c.position_embeddings_initializer, "position")
              ELSE h1
        h3 == IF seg # NoRef
              THEN Initialize(h2, seg, c.segment_embeddings_initializer, "segment")
              ELSE h2
        h4 == ZeroPadding(h3, word)
        h5 == IF learned THEN ZeroPadding(h4, pos) ELSE h4
    IN IF ~Truthy(c.pad_token_id) THEN [error |-> "", heap |-> h3]
       ELSE IF ~Truthy(c.pad_token_id) THEN [error |-> "", heap |-> h5]
       ELSE IF seg = NoRef THEN [error |-> "AttributeError", heap |-> h5]
       ELSE [error |-> "", heap |-> ZeroPadding(h5, seg)]

\* What __init__ leaves behind: the attributes assigned, the tables created
\* (built, in order) and the exception raised ("" when it returns).
Constructed(h, word, pos, seg, b, e) ==
    [heap |-> h, word_embeddings |-> word, position_embeddings |-> pos,
     segment_embeddings |-> seg, built |-> b, error |-> e]

__init__(c, h0) ==
    LET segment_embedding_size ==
            IF IsNone(c.segment_embedding_size) THEN c.embedding_size
            ELSE c.segment_embedding_size[1]
        h1 == [h0 EXCEPT !["word"] =
                  NewEmbedding("word", c.vocab_size, c.embedding_size, c.pad_token_id)]
        b1 == <<"word_embeddings">>
        type == c.position_embedding_type
        fixed == create_fix_pos_embedding(c.max_position_embeddings[1], c.embedding_size)
    IN IF type # "None" /\ IsNone(c.max_position_embeddings)
       THEN Constructed(h1, "word", NoPosition, NoRef, b1, "ValueError")
       ELSE IF type \notin {"None", "learned", "fixed", "rotary"}
       THEN Constructed(h1, "word", NoPosition, NoRef, b1, "ValueError")
       ELSE IF type = "fixed" /\ ~Ok(fixed)
       THEN Constructed(h1, "word", NoPosition, NoRef, b1, fixed.err)
       ELSE
       LET h2 == IF type = "learned"
                 THEN [h1 EXCEPT !["position"] =
                          NewEmbedding("position", c.max_position_embeddings[1],
                                       c.embedding_size, None)]
                 ELSE h1
           pos == IF type = "learned" THEN [ref |-> "position", tensor |-> NoTensor]
                  ELSE IF type = "fixed" THEN [ref |-> NoRef, tensor |-> fixed]
                  ELSE NoPosition
           b2 == IF type \in {"learned", "fixed"}
                 THEN Append(b1, "position_embeddings") ELSE b1
           h3 == IF Truthy(c.num_segments)
                 THEN [h2 EXCEPT !["segment"] =
                          NewEmbedding("segment", c.num_segments[1],
                                       segment_embedding_size, None)]
                 ELSE h2
           seg == IF Truthy(c.num_segments) THEN "segment" ELSE NoRef
           b3 == IF Truthy(c.num_segments)
                 THEN Append(b2, "segment_embeddings") ELSE b2
       IN Let(_reset_parameters(c, Constructed(h3, "word", pos, seg, b3, "")),
              LAMBDA reset :
                  Constructed(reset.heap, "word", pos, seg, b3, reset.error))

(***************************************************************************)
(* forward and the accessors.                                              *)
(***************************************************************************)
\* A variant of PositionIds that ignores past_length.
ArangeFromZero(past_length, seq_len, batch_size) ==
    Expand(Arange(0, seq_len), batch_size)

\* torch.arange(past_length, seq_len + past_length).expand((batch_size, -1))
PositionIds(past_length, seq_len, batch_size) ==
    Expand(Arange(past_length, seq_len + past_length), batch_size)

\* A variant of AddSegment that adds nothing.
SkipSegment(self, embeddings, segment_ids) == embeddings

\* The segment step of forward.
AddSegment(self, embeddings, segment_ids) ==
    IF Ok(segment_ids) /\ self.segment_embeddings # NoRef
    THEN IAdd(embeddings,
              Embedding(self.heap[self.segment_embeddings].weight, segment_ids))
    ELSE embeddings

\* What a forward call computes: the word table it looked the tokens up in,
\* the position ids and the positional term it built (NoTensor when it built
\* none) and what it returned or raised.
Forwarded(word, ids, pe, result) ==
    [word_table |-> word, position_ids |-> ids, position_embeddings |-> pe,
     result |-> result]

NotForwarded == Forwarded(NoRef, NoTensor, NoTensor, NoTensor)

forward(self, type, input_ids, segment_ids, past_length) ==
    LET input_shape == input_ids.shape
        batch_size == input_shape[1]
        seq_len == input_shape[Len(input_shape)]
        ids == View(input_ids, seq_len)
        word == self.word_embeddings
    IN Let(Embedding(self.heap[word].weight, ids), LAMBDA words :
       IF ~Ok(words) THEN Forwarded(word, NoTensor, NoTensor, words)
       ELSE IF PositionIsNone(self.position_embeddings)
       THEN Forwarded(word, NoTensor, NoTensor, AddSegment(self, words, segment_ids))
       ELSE IF type = "learned"
       THEN Let(PositionIds(past_length, seq_len, batch_size), LAMBDA position_ids :
            Let(Embedding(self.heap[self.position_embeddings.ref].weight,
                          position_ids), LAMBDA pe :
            Let(IAdd(words, pe), LAMBDA sum :
                IF ~Ok(sum) THEN Forwarded(word, position_ids, pe, sum)
                ELSE Forwarded(word, position_ids, pe,
                               AddSegment(self, sum, segment_ids)))))
       ELSE IF type = "fixed"
       THEN Let(self.position_embeddings.tensor, LAMBDA pe :
            Let(IAdd(words, pe), LAMBDA sum :
                IF ~Ok(sum) THEN Forwarded(word, NoTensor, pe, sum)
                ELSE Forwarded(word, NoTensor, pe, AddSegment(self, sum, segment_ids))))
       ELSE Forwarded(word, NoTensor, NoTensor, Raise("UnboundLocalError")))

get_input_embeddings(self) == self.word_embeddings

\* A variant of set_input_embeddings that keeps the old reference.
KeepEmbeddings(self, new_embeddings) == self

\* The layer after set_input_embeddings(new_embeddings).
set_input_embeddings(self, new_embeddings) ==
    [self EXCEPT !.word_embeddings = new_embeddings]

(***************************************************************************)
(* The state machine.                                                      *)
(***************************************************************************)
Self ==
    [heap |-> heap, word_embeddings |-> word_embeddings,
     position_embeddings |-> position_embeddings,
     segment_embeddings |-> segment_embeddings]

VocabSizes == {2}

EmbeddingSizes == {2, 4}

PositionEmbeddingTypes == {"None", "learned", "fixed", "rotary", "relative"}

NumSegments == {None, Some(2)}

LeadingShapes == {<<1>>, <<2>>, <<1, 2>>, <<2, 2>>}

Configs ==
    {c \in [vocab_size : VocabSizes,
            embedding_size : EmbeddingSizes,
            pad_token_id : {None} \cup {Some(i) : i \in 0..1},
            segment_embedding_size : {None},
            embeddings_initializer : {"uniform"},
            max_position_embeddings : {None} \cup {Some(n) : n \in 1..MaxPos},
            position_embedding_type : PositionEmbeddingTypes,
            position_embeddings_initializer : {"uniform"},
            num_segments : NumSegments,
            segment_embeddings_initializer : {"uniform"}] :
        c.pad_token_id = None \/ c.pad_token_id[1] < c.vocab_size}

\* Token ids of the given shape, every one a row of the word table.
InputIds(shape, first, vocab_size) ==
    T(shape, [k \in 1..Numel(shape) |-> (first + k - 1) % vocab_size])

\* Segment ids of the shape of the token ids, every one a row of the segment
\* table when there is one.
SegmentIds(shape, num_segments) ==
    T(shape, [k \in 1..Numel(shape) |->
                IF Truthy(num_segments) THEN (k - 1) % num_segments[1] ELSE 0])

Inputs(c) ==
    {[input_ids |-> InputIds(Append(lead, s), first, c.vocab_size),
      segment_ids |-> IF seg THEN SegmentIds(Append(lead, s), c.num_segments)
                      ELSE NoTensor,
      past_length |-> k] :
        lead \in LeadingShapes, s \in 1..MaxSeqLen, first \in {0},
        seg \in BOOLEAN, k \in 0..MaxPast}

\* A table of another module, offered to set_input_embeddings for weight tying.
TiedEmbedding(c) ==
    [weight |-> Initializer("uniform", "tied",
                            T(<<c.vocab_size, c.embedding_size>>, <<>>)),
     padding_idx |-> None]

NoInput == [input_ids |-> NoTensor, segment_ids |-> NoTensor, past_length |-> 0]

Init ==
    /\ cfg \in Configs
    /\ input \in Inputs(cfg)
    /\ status = "new"
    /\ error = ""
    /\ built = <<>>
    /\ heap = [h \in Handles |-> IF h = "tied" THEN TiedEmbedding(cfg) ELSE NoModule]
    /\ word_embeddings = NoRef
    /\ position_embeddings = NoPosition
    /\ segment_embeddings = NoRef
    /\ out = NotForwarded
    /\ got = NoRef
    /\ last_set = NoRef
    /\ fix_args = None
    /\ signal = NoTensor

Construct ==
    /\ status = "new"
    /\ LET self == __init__(cfg, heap)
       IN /\ status' = IF self.error = "" THEN "ready" ELSE "failed"
          /\ error' = self.error
          /\ built' = self.built
          /\ heap' = self.heap
          /\ word_embeddings' = self.word_embeddings
          /\ position_embeddings' = self.position_embeddings
          /\ segment_embeddings' = self.segment_embeddings
    /\ UNCHANGED <<cfg, input, out, got, last_set, fix_args, signal>>

Forward ==
    /\ status = "ready"
    /\ out' = forward(Self, cfg.position_embedding_type, input.input_ids,
                      input.segment_ids, input.past_length)
    /\ UNCHANGED <<cfg, input, status, error, built, heap, word_embeddings,
                   position_embeddings, segment_embeddings, got, last_set,
                   fix_args, signal>>

GetInputEmbeddings ==
    /\ status = "ready"
    /\ got' = get_input_embeddings(Self)
    /\ UNCHANGED <<cfg, input, status, error, built, heap, word_embeddings,
                   position_embeddings, segment_embeddings, out, last_set,
                   fix_args, signal>>

SetInputEmbeddings(new_embeddings) ==
    /\ status = "ready"
    /\ LET self == set_input_embeddings(Self, new_embeddings)
       IN /\ heap' = self.heap
          /\ word_embeddings' = self.word_embeddings
          /\ position_embeddings' = self.position_embeddings
          /\ segment_embeddings' = self.segment_embeddings
    /\ last_set' = new_embeddings
    /\ UNCHANGED <<cfg, input, status, error, built, out, got, fix_args, signal>>

Next ==
    \/ Construct
    \/ Forward
    \/ GetInputEmbeddings
    \/ \E new_embeddings \in ({got} \cup {"tied"}) \ {NoRef} :
          SetInputEmbeddings(new_embeddings)

Spec == Init /\ [][Next]_vars

(***************************************************************************)
(* create_fix_pos_embedding on its own: the arguments are drawn at the     *)
(* start and the one step is the call.                                     *)
(***************************************************************************)
DefaultConfig ==
    CHOOSE c \in Configs :
        /\ c.embedding_size = 4
        /\ c.pad_token_id = None
        /\ c.max_position_embeddings = None
        /\ c.position_embedding_type = "None"
        /\ c.num_segments = None

InitFix ==
    /\ fix_args \in {Some([seq_len |-> s, embed_len |-> e]) :
                        s \in 0..MaxFixSeqLen, e \in 2..MaxFixEmbedLen}
    /\ signal = NoTensor
    /\ cfg = DefaultConfig
    /\ input = NoInput
    /\ status = "new"
    /\ error = ""
    /\ built = <<>>
    /\ heap = [h \in Handles |-> NoModule]
    /\ word_embeddings = NoRef
    /\ position_embeddings = NoPosition
    /\ segment_embeddings = NoRef
    /\ out = NotForwarded
    /\ got = NoRef
    /\ last_set = NoRef

CreateFixPosEmbedding ==
    /\ fix_args # None
    /\ signal = NoTensor
    /\ signal' = create_fix_pos_embedding(fix_args[1].seq_len, fix_args[1].embed_len)
    /\ UNCHANGED <<cfg, input, status, error, built, heap, word_embeddings,
                   position_embeddings, segment_embeddings, out, got, last_set,
                   fix_args>>

NextFix == CreateFixPosEmbedding

SpecFix == InitFix /\ [][NextFix]_vars

(***************************************************************************)
(* The claims.                                                             *)
(***************************************************************************)
InputShape == input.input_ids.shape

SeqLen == InputShape[Len(InputShape)]

BatchSize == InputShape[1]

FlatBatch == Numel(InputShape) \div SeqLen

Called == out # NotForwarded

PadTokenSet == cfg.pad_token_id # None

WordTable == heap["word"].weight

PositionTable == heap["position"].weight

SegmentTable == heap["segment"].weight

\* past_length + seq_len <= max_position_embeddings, where there is a maximum
InRange ==
    \/ IsNone(cfg.max_position_embeddings)
    \/ input.past_length + SeqLen <= cfg.max_position_embeddings[1]

\* A configuration that is valid apart from its pad_token_id and num_segments:
\* a known type, max_position_embeddings given with every type but None, and
\* not the fixed table of a single timescale.
OtherwiseValid ==
    /\ cfg.position_embedding_type \in {"None", "learned", "fixed", "rotary"}
    /\ cfg.position_embedding_type = "None" \/ cfg.max_position_embeddings # None
    /\ ~(cfg.position_embedding_type = "fixed" /\ cfg.embedding_size \div 2 = 1)

\* The sum forward returns at [f, j, c] when it adds no positional term: the
\* row of the word table for the token there, plus the row of the segment
\* table for the segment id there when segment ids are given and there is a
\* segment table.
WordPlusSegment(f, j, c) ==
    LET at == f * SeqLen + j + 1
        word == At2(heap[out.word_table].weight, input.input_ids.data[at], c)
    IN IF Ok(input.segment_ids) /\ segment_embeddings # NoRef
       THEN Plus(word, At2(SegmentTable, input.segment_ids.data[at], c))
       ELSE word

\* C1: for every valid configuration and every input of rank >= 2 with
\* past_length + seq_len <= max_position_embeddings, forward returns a tensor
\* of shape [flattened_batch, seq_len, embedding_size].
C1_ForwardShape ==
    (status = "ready" /\ Called /\ InRange)
        => /\ Ok(out.result)
           /\ out.result.shape = <<FlatBatch, SeqLen, cfg.embedding_size>>

\* C2: with pad_token_id a row of the word table (0 included), whatever the
\* type and num_segments, construction completes and leaves that row zero.
C2_PadRowZero ==
    (status # "new" /\ PadTokenSet /\ OtherwiseValid)
        => /\ status = "ready"
           /\ \A c \in 0..(cfg.embedding_size - 1) :
                  At2(WordTable, cfg.pad_token_id[1], c) = Zero

\* C3: create_fix_pos_embedding returns seq_len rows and embed_len columns,
\* and for odd embed_len the last column is zero at every position.
C3_OddWidthZeroColumn ==
    (fix_args # None /\ Ok(signal))
        => /\ signal.shape = <<fix_args[1].seq_len, fix_args[1].embed_len>>
           /\ fix_args[1].embed_len % 2 = 1
                => \A p \in 0..(fix_args[1].seq_len - 1) :
                       At2(signal, p, fix_args[1].embed_len - 1) = Zero

\* C4: without max_position_embeddings, construction fails for the types
\* learned and fixed, and succeeds with no positional table for None and rotary.
C4_MaxPositionRequired ==
    (/\ status # "new"
     /\ IsNone(cfg.max_position_embeddings)
     /\ ~(Truthy(cfg.pad_token_id) /\ ~Truthy(cfg.num_segments)))
        => /\ cfg.position_embedding_type \in {"learned", "fixed"}
                => status = "failed"
           /\ cfg.position_embedding_type \in {"None", "rotary"}
                => status = "ready" /\ PositionIsNone(position_embeddings)

\* C5: a construction that fails for a missing max_position_embeddings or an
\* unknown position_embedding_type has created no table before it fails.
C5_FailBeforeTables ==
    (status = "failed" /\ error = "ValueError") => built = <<>>

\* C6: in learned mode with past_length = k and k + seq_len within the table,
\* the position ids are k, ..., k + seq_len - 1 in every batch row, the
\* positional term at sequence index j is row k + j of the learned table in
\* every batch row, which is the term at index k + j of a call with
\* past_length = 0, and that is what forward adds to the word (and segment)
\* rows when it returns.
C6_LearnedOffset ==
    (/\ status = "ready"
     /\ cfg.position_embedding_type = "learned"
     /\ Called
     /\ InRange)
        => LET k == input.past_length
               n == cfg.max_position_embeddings[1]
               zero == forward(Self, "learned", InputIds(<<1, n>>, 0, cfg.vocab_size),
                               NoTensor, 0)
           IN /\ out.position_ids.shape = <<BatchSize, SeqLen>>
              /\ Ok(out.position_embeddings)
              /\ \A b \in 0..(BatchSize - 1), j \in 0..(SeqLen - 1) :
                    /\ At2(out.position_ids, b, j) = k + j
                    /\ \A c \in 0..(cfg.embedding_size - 1) :
                          /\ At3(out.position_embeddings, b, j, c)
                               = At2(PositionTable, k + j, c)
                          /\ At3(out.position_embeddings, b, j, c)
                               = At3(zero.position_embeddings, 0, k + j, c)
              /\ Ok(out.result)
                    => \A f \in 0..(FlatBatch - 1), j \in 0..(SeqLen - 1),
                          c \in 0..(cfg.embedding_size - 1) :
                          At3(out.result, f, j, c)
                            = Plus(WordPlusSegment(f, j, c),
                                   At2(PositionTable, k + j, c))

C6_Witness ==
    /\ status = "ready"
    /\ cfg.position_embedding_type = "learned"
    /\ InRange
    /\ input.past_length >= 1
    /\ BatchSize >= 2
    /\ Ok(out.result)
    /\ At3(out.position_embeddings, 1, 0, 0) # Zero

\* C7: with the type rotary or None, forward builds no positional term and
\* returns, whatever past_length is, the word rows plus the segment rows
\* (the latter when segment ids are given and a segment table exists).
C7_NoPositionalTerm ==
    (/\ status = "ready"
     /\ cfg.position_embedding_type \in {"rotary", "None"}
     /\ Called)
        => /\ out.position_ids = NoTensor
           /\ out.position_embeddings = NoTensor
           /\ (Len(InputShape) = 2 \/ ~Ok(input.segment_ids)
                 \/ segment_embeddings = NoRef) => Ok(out.result)
           /\ Ok(out.result)
                 => /\ out.result.shape = <<FlatBatch, SeqLen, cfg.embedding_size>>
                    /\ \A f \in 0..(FlatBatch - 1), j \in 0..(SeqLen - 1),
                          c \in 0..(cfg.embedding_size - 1) :
                          At3(out.result, f, j, c) = WordPlusSegment(f, j, c)

C7_Witness ==
    /\ status = "ready"
    /\ cfg.position_embedding_type = "rotary"
    /\ input.past_length >= 1
    /\ Ok(input.segment_ids)
    /\ segment_embeddings # NoRef
    /\ Ok(out.result)
    /\ At3(out.result, 0, 0, 0) # At2(heap[out.word_table].weight, 0, 0)

\* C8: get_input_embeddings returns the reference the layer holds;
\* set_input_embeddings replaces that reference and nothing else, so the
\* word table is the argument of the last set (the table built at
\* construction if there was none); setting the reference just got changes
\* nothing of the layer; no accessor touches a table.
C8_Step ==
    /\ status' = "ready"
          => word_embeddings' = IF last_set' = NoRef THEN "word" ELSE last_set'
    /\ got' # got => got' = word_embeddings /\ word_embeddings' = word_embeddings
    /\ status = "ready"
          => /\ heap' = heap
             /\ position_embeddings' = position_embeddings
             /\ segment_embeddings' = segment_embeddings
    /\ (status = "ready" /\ last_set' = got /\ got = word_embeddings)
          => /\ Self' = Self
             /\ forward(Self', cfg.position_embedding_type, input.input_ids,
                        input.segment_ids, input.past_length)
                  = forward(Self, cfg.position_embedding_type, input.input_ids,
                            input.segment_ids, input.past_length)

C8_Accessors == [][C8_Step]_vars

C8_Witness ==
    /\ status = "ready"
    /\ got = "tied"
    /\ last_set = got
    /\ word_embeddings = got
    /\ out.word_table = "tied"
    /\ Ok(out.result)

\* C9: reshape, transpose and flatten interleave the block of sines and the
\* block of cosines: at every position p and timescale i, column 2i holds
\* sin(scaled_time[p, i]) and column 2i + 1 holds cos(scaled_time[p, i]).
C9_Interleaved ==
    (fix_args # None /\ Ok(signal))
        => \A p \in 0..(fix_args[1].seq_len - 1),
              i \in 0..((fix_args[1].embed_len \div 2) - 1) :
              /\ At2(signal, p, 2 * i) = Sin(ScaledTime(p, i))
              /\ At2(signal, p, 2 * i + 1) = Cos(ScaledTime(p, i))

C9_Witness ==
    /\ fix_args # None
    /\ Ok(signal)
    /\ fix_args[1].seq_len >= 3
    /\ fix_args[1].embed_len \div 2 >= 3
    /\ At2(signal, 2, 3) = Cos(ScaledTime(2, 1))

\* C10: with pad_token_id set, after construction every row of the word table
\* but the pad row, every row of the learned positional table and every row
\* of the segment table holds what its initializer wrote.
C10_OnlyPadRowChanges ==
    (status = "ready" /\ PadTokenSet)
        => /\ \A r \in 0..(cfg.vocab_size - 1), c \in 0..(cfg.embedding_size - 1) :
                 r # cfg.pad_token_id[1]
                    => At2(WordTable, r, c)
                         = At2(Initializer(cfg.embeddings_initializer, "word",
                                           WordTable), r, c)
           /\ cfg.position_embedding_type = "learned"
                 => PositionTable
                      = Initializer(cfg.position_embeddings_initializer,
                                    "position", PositionTable)
           /\ segment_embeddings # NoRef
                 => SegmentTable
                      = Initializer(cfg.segment_embeddings_initializer,
                                    "segment", SegmentTable)

====
